---- MODULE Spec2Model ----
(***************************************************************************)
(* A model of lib/depgraph.py: the dependency graph (MarkMixin), its two   *)
(* mutation algorithms (DepGraph.add_requirement, DepGraph.remove_package), *)
(* the order sequences (_Order) and the plan extractor (get_marks).        *)
(*                                                                         *)
(* The recursion of add_requirement and remove_package is modelled by an   *)
(* explicit call stack: one action runs the body of a call up to its loop  *)
(* of recursive calls, one makes the next recursive call, one returns.  An *)
(* exception is never caught inside the module, so raising one unwinds the *)
(* whole stack and leaves the graph as it was at the raise.                *)
(***************************************************************************)
EXTENDS Integers, Sequences, FiniteSets, TLC

\* ------------------------------------------------------------------ bounds
\* number of top-level add_requirement / remove_package calls explored
MaxCalls == 2
\* depth of the call stack at which the interpreter gives up (RecursionError)
MaxDepth == 5

\* ------------------------------------------------- values of the program
\* Python's None in a Node's pkg / pkg1 field (versions are positive)
None == 0
\* MarkMixin.sentinal_delete: the pkg1 value of a node marked for removal
sentinal_delete == -1
\* None as the `parent` / `required_by` argument and as a dict key
NoParent == "None"
\* the rank rearrange_list gives to an element that was never pushed
NotPresentRank == 99999

Names == {"fabric", "pycrypto", "paramiko", "virtualenv", "a", "b", "c", "d", "unknown"}
Parents == Names \cup {NoParent}

\* Requirement.parse: (project name, version spec); one (op, version) clause
Ops == {"any", "le", "ge", "eq", "lt"}
Req(n, o, v) == [name |-> n, op |-> o, ver |-> v, extras |-> {}]
\* a requirement that names extras, "name[extra,...]"
ReqX(n, o, v, xs) == [name |-> n, op |-> o, ver |-> v, extras |-> xs]

\* req_name(r): the canonical name of a requirement
req_name(r) == r.name

\* `version in req`
Satisfies(v, req) ==
    CASE req.op = "any" -> TRUE
      [] req.op = "le"  -> v <= req.ver
      [] req.op = "ge"  -> v >= req.ver
      [] req.op = "eq"  -> v = req.ver
      [] req.op = "lt"  -> v < req.ver

\* Distribution.version_key: the comparable key of a version
version_key(v) == v

\* ---------------------------------------------------------- collaborators
\* Distribution.get_requirements(extras): the catalog of the module's
\* example (fabric, paramiko, pycrypto), a pair of packages that require
\* each other (a, b), a package whose two requirements on pycrypto exclude
\* each other (c) and a package that requires paramiko with an extra (d).
install_requires(n, v) ==
    CASE n = "fabric" /\ v = 92 -> << Req("pycrypto", "le", 21), Req("paramiko", "any", 0) >>
      [] n = "fabric" /\ v = 91 -> << Req("pycrypto", "any", 0) >>
      [] n = "paramiko"         -> << Req("pycrypto", "any", 0) >>
      [] n = "a"                -> << Req("b", "any", 0) >>
      [] n = "b"                -> << Req("a", "any", 0) >>
      [] n = "c"                -> << Req("pycrypto", "ge", 23), Req("pycrypto", "lt", 20) >>
      [] n = "d"                -> << ReqX("paramiko", "any", 0, {"agent"}) >>
      [] OTHER                  -> << >>

\* the requirements one extra contributes
extras_require(n, v, e) ==
    CASE n = "paramiko" /\ e = "agent" -> << Req("virtualenv", "any", 0) >>
      [] OTHER                         -> << >>

\* the requirements a set of extras contributes, one extra after the other
RECURSIVE extras_requirements(_, _, _)
extras_requirements(n, v, extras) ==
    IF extras = {} THEN << >>
    ELSE LET e == CHOOSE x \in extras : TRUE
         IN  extras_require(n, v, e) \o extras_requirements(n, v, extras \ {e})

\* get_requirements(extras): the default requirements and the extras' ones
get_requirements(n, v, extras) ==
    install_requires(n, v) \o extras_requirements(n, v, extras)

\* get_requirements([e], exclude_default=True)
get_requirements_exclude_default(n, v, extras) == extras_requirements(n, v, extras)

\* get_available_distributions(name): versions, newest first
get_available_distributions(n) ==
    CASE n = "fabric"     -> << 92, 91 >>
      [] n = "paramiko"   -> << 9 >>
      [] n = "pycrypto"   -> << 23, 21 >>
      [] n = "virtualenv" -> << 13 >>
      [] n = "a"          -> << 1 >>
      [] n = "b"          -> << 1 >>
      [] n = "c"          -> << 1 >>
      [] OTHER            -> << >>

\* get_installed_distributions(): the installed sets explored, each a
\* sequence of (name, version), one entry per name
ExampleInstalled == << <<"fabric", 91>>, <<"pycrypto", 21>>, <<"virtualenv", 14>> >>
CycleInstalled == << <<"a", 1>>, <<"b", 1>> >>
ExtrasInstalled == << <<"d", 1>>, <<"paramiko", 9>>, <<"pycrypto", 21>> >>
InstalledSets == { ExampleInstalled, << >>, CycleInstalled, ExtrasInstalled }

\* ------------------------------------------------------ sequence helpers
SeqToSet(s) == { s[i] : i \in 1..Len(s) }

IndexOf(s, e) == CHOOSE i \in 1..Len(s) : s[i] = e /\ \A j \in 1..(i-1) : s[j] # e

\* list.remove(e): drop the first occurrence
ListRemove(s, e) ==
    LET i == IndexOf(s, e)
    IN  SubSeq(s, 1, i-1) \o SubSeq(s, i+1, Len(s))

\* --------------------------------------------------------------- _Order
EmptyOrder == [elements |-> << >>, elements_set |-> {}]

\* _Order.push: the result and the exception raised, "" when none.  On the
\* re-insertion path the element leaves the list, then
\* `self._elements_set.remove(set)` looks up the builtin `set`, which is
\* never a member: KeyError, with the list already shortened.
push(order, element) ==
    IF element \in order.elements_set
    THEN IF element \notin SeqToSet(order.elements)
         THEN [o |-> order, exc |-> "ValueError"]
         ELSE [o |-> [order EXCEPT !.elements = ListRemove(@, element)],
               exc |-> "KeyError"]
    ELSE [o |-> [elements |-> Append(order.elements, element),
                 elements_set |-> order.elements_set \cup {element}],
          exc |-> ""]

\* ------------------------------------------------------ graph and marks
Node(p, p1) == [pkg |-> p, pkg1 |-> p1]

\* defaultdict(lambda: defaultdict(list)): a missing entry is an empty list
EmptyEdges == [n1 \in Names |-> [n2 \in Parents |-> << >>]]

\* the requirement replaces the recorded list instead of joining it
mark_new_requirement_assign(g, n1, n2, r) ==
    [g EXCEPT !.edges[n1][n2] = << r >>]

\* MarkMixin._mark_new_requirement
mark_new_requirement(g, n1, n2, r) ==
    [g EXCEPT !.edges[n1][n2] = Append(@, r)]

\* the `if required_by:` guard of the mark primitives
mark_if_required(g, name, required_by, requirement) ==
    IF required_by # NoParent
    THEN mark_new_requirement(g, name, required_by, requirement)
    ELSE g

\* The `assert` statements of the mark primitives are executed (the
\* interpreter runs without -O): a failed one raises AssertionError before
\* anything is assigned.

\* MarkMixin._mark_for_install: the graph afterwards and the exception
mark_for_install(g, name, p, required_by, requirement) ==
    IF name \in DOMAIN g.nodes
    THEN [g |-> g, exc |-> "AssertionError"]
    ELSE LET g1 == [g EXCEPT !.nodes = [n \in DOMAIN g.nodes \cup {name} |->
                                IF n = name THEN Node(None, p) ELSE g.nodes[n]]]
             g2 == mark_if_required(g1, name, required_by, requirement)
             po == push(g2.order_new, name)
         IN  [g |-> [g2 EXCEPT !.order_new = po.o], exc |-> po.exc]

\* MarkMixin._mark_for_change
mark_for_change(g, name, p, required_by, requirement) ==
    IF name \notin DOMAIN g.nodes
    THEN [g |-> g, exc |-> "AssertionError"]
    ELSE LET node == g.nodes[name]
         IN  IF node.pkg = None
             THEN \* node.pkg.version_key on None
                  [g |-> g, exc |-> "AttributeError"]
             ELSE LET p1 == IF version_key(p) = version_key(node.pkg) THEN None ELSE p
                      g1 == [g EXCEPT !.nodes[name] = Node(node.pkg, p1)]
                      g2 == mark_if_required(g1, name, required_by, requirement)
                      po == push(g2.order_change, name)
                  IN  [g |-> [g2 EXCEPT !.order_change = po.o], exc |-> po.exc]

\* the test for an earlier removal mark is never true
already_removed_never(node) == FALSE

\* _mark_for_removal, line 121: the node carries the removal sentinel
already_removed(node) == node.pkg1 = sentinal_delete

\* RemoveBody cascades whether or not the mark was new
cascades_unless_nodeps(marked, nodeps) == ~ nodeps

\* remove_package, line 244: `if node and not nodeps`
cascades(marked, nodeps) == marked /\ ~ nodeps

\* the removal mark without the check that nothing else is pending
mark_for_removal_unchecked(g, name) ==
    IF name \notin DOMAIN g.nodes
    THEN [g |-> g, exc |-> "AssertionError", marked |-> FALSE]
    ELSE LET node == g.nodes[name]
         IN  IF already_removed(node)
             THEN [g |-> g, exc |-> "", marked |-> FALSE]
             ELSE LET g1 == [g EXCEPT !.nodes[name] = Node(node.pkg, sentinal_delete)]
                      po == push(g1.order_remove, name)
                  IN  [g |-> [g1 EXCEPT !.order_remove = po.o], exc |-> po.exc,
                       marked |-> po.exc = ""]

\* MarkMixin._mark_for_removal: `marked` is FALSE where the code returns None
mark_for_removal(g, name) ==
    IF name \notin DOMAIN g.nodes
    THEN [g |-> g, exc |-> "AssertionError", marked |-> FALSE]
    ELSE LET node == g.nodes[name]
         IN  IF already_removed(node)
             THEN [g |-> g, exc |-> "", marked |-> FALSE]
             ELSE IF node.pkg1 # None
             THEN [g |-> g, exc |-> "AssertionError", marked |-> FALSE]
             ELSE LET g1 == [g EXCEPT !.nodes[name] = Node(node.pkg, sentinal_delete)]
                      po == push(g1.order_remove, name)
                  IN  [g |-> [g1 EXCEPT !.order_remove = po.o], exc |-> po.exc,
                       marked |-> po.exc = ""]

\* has_package
has_package(g, name) == name \in DOMAIN g.nodes

\* -------------------------------------------------- installed-state loader
EmptyGraph ==
    [nodes |-> << >>, edges |-> EmptyEdges, order_new |-> EmptyOrder,
     order_change |-> EmptyOrder, order_remove |-> EmptyOrder]

\* pass 1: a steady-state node for every installed distribution
load_pass1(ipackages) ==
    [EmptyGraph EXCEPT !.nodes =
        [n \in { ipackages[i][1] : i \in 1..Len(ipackages) } |->
            Node(ipackages[CHOOSE i \in 1..Len(ipackages) : ipackages[i][1] = n][2], None)]]

\* pass 2, inner loop: the requirements rl[k..] of the installed `name`
RECURSIVE load_reqs(_, _, _, _)
load_reqs(g, name, rl, k) ==
    IF k > Len(rl) THEN g
    ELSE LET r == rl[k]
             g1 == IF has_package(g, req_name(r))
                   THEN mark_new_requirement(g, req_name(r), name, r)
                   ELSE g
         IN  load_reqs(g1, name, rl, k + 1)

\* pass 2, outer loop over the nodes, in the order they were inserted
RECURSIVE load_pass2(_, _, _)
load_pass2(g, ipackages, i) ==
    IF i > Len(ipackages) THEN g
    ELSE load_pass2(load_reqs(g, ipackages[i][1],
                              get_requirements(ipackages[i][1], ipackages[i][2], {}), 1),
                    ipackages, i + 1)

\* the (dependency, extra, dependent) triples pass 2 defers (lines 361-363)
extra_requirements(g, ipackages) ==
    { t \in Names \X {"agent"} \X Names :
        \E i \in 1..Len(ipackages) :
            /\ ipackages[i][1] = t[3]
            /\ \E r \in SeqToSet(get_requirements(ipackages[i][1], ipackages[i][2], {})) :
                  /\ req_name(r) = t[1]
                  /\ has_package(g, t[1])
                  /\ t[2] \in r.extras }

\* pass 3, inner loop: every requirement the extra contributes becomes an
\* edge to the dependent, whether its name is installed or not
RECURSIVE load_extra_reqs(_, _, _, _)
load_extra_reqs(g, n2, rl, k) ==
    IF k > Len(rl) THEN g
    ELSE load_extra_reqs(mark_new_requirement(g, req_name(rl[k]), n2, rl[k]), n2, rl, k + 1)

\* pass 3, outer loop over the deferred triples (a set: in no fixed order)
RECURSIVE load_pass3(_, _)
load_pass3(g, triples) ==
    IF triples = {} THEN g
    ELSE LET t == CHOOSE x \in triples : TRUE
             rl == get_requirements_exclude_default(t[1], g.nodes[t[1]].pkg, {t[2]})
         IN  load_pass3(load_extra_reqs(g, t[3], rl, 1), triples \ {t})

\* _load_install_db
load_install_db(ipackages) ==
    LET g2 == load_pass2(load_pass1(ipackages), ipackages, 1)
    IN  load_pass3(g2, extra_requirements(g2, ipackages))

\* ------------------------------------------------------------ the state
VARIABLES
    installed,      \* what get_installed_distributions returned
    nodes,          \* MarkMixin.nodes: name -> Node
    edges,          \* MarkMixin.edges: edges[n1][n2] = requirements of n2 on n1
    order_new,      \* MarkMixin._order_new
    order_change,   \* MarkMixin._order_change
    order_remove,   \* MarkMixin._order_remove
    stack,          \* the active calls, outermost first
    call,           \* the current (or last) top-level call and how it ended
    history,        \* the top-level calls before it, oldest first
    pre,            \* the graph when the current top-level call started
    calls,          \* number of top-level calls made
    plan            \* what the caller's last get_marks() returned

vars == << installed, nodes, edges, order_new, order_change, order_remove,
           stack, call, history, pre, calls, plan >>

\* the graph as one value
G == [nodes |-> nodes, edges |-> edges, order_new |-> order_new,
      order_change |-> order_change, order_remove |-> order_remove]

SetGraph(g) ==
    /\ nodes' = g.nodes
    /\ edges' = g.edges
    /\ order_new' = g.order_new
    /\ order_change' = g.order_change
    /\ order_remove' = g.order_remove

NoReq == Req("unknown", "any", 0)
NoPlan == [taken |-> FALSE, install |-> << >>, change |-> << >>, remove |-> << >>]
NoCall == [op |-> "none", r |-> NoReq, name |-> "unknown", nodeps |-> FALSE,
           status |-> "none", exc |-> "", ret |-> FALSE]

Init ==
    /\ installed \in InstalledSets
    /\ LET g == load_install_db(installed)
       IN  /\ nodes = g.nodes
           /\ edges = g.edges
           /\ order_new = g.order_new
           /\ order_change = g.order_change
           /\ order_remove = g.order_remove
           /\ pre = g
    /\ stack = << >>
    /\ call = NoCall
    /\ history = << >>
    /\ calls = 0
    /\ plan = NoPlan

\* ------------------------------------------------------- add_requirement
\* to_satisfy: r and, when the node exists, every requirement recorded in
\* edges[name][*].  The code builds a list; only `all(...)` over it is
\* used, so its order does not matter and it is kept as a set.
to_satisfy(g, r) ==
    {r} \cup (IF has_package(g, req_name(r))
              THEN UNION { SeqToSet(g.edges[req_name(r)][n2]) : n2 \in Parents }
              ELSE {})

\* the releases that satisfy r alone, whatever is recorded for the name
satisfying_packages_own(g, r) ==
    SelectSeq(get_available_distributions(req_name(r)), LAMBDA p : Satisfies(p, r))

\* the releases that satisfy every requirement, in list order
satisfying_packages(g, r) ==
    SelectSeq(get_available_distributions(req_name(r)),
              LAMBDA p : \A req \in to_satisfy(g, r) : Satisfies(p, req))

\* the removal sentinel does not count as a pending distribution
effective_unless_removed(node) ==
    IF node.pkg1 \notin {None, sentinal_delete} THEN node.pkg1 ELSE node.pkg

\* `node.pkg1 or node.pkg`
effective(node) == IF node.pkg1 # None THEN node.pkg1 ELSE node.pkg

\* the decision that keeps any newer version, satisfying or not
change_needed_keep_newer(g, r, node_pkg, p) ==
    version_key(node_pkg) < version_key(p)

\* the decision on an existing node: TRUE when the node is to be marked for
\* change to p (lines 287-306)
change_needed(g, r, node_pkg, p) ==
    IF version_key(node_pkg) = version_key(p) THEN FALSE
    ELSE IF version_key(node_pkg) > version_key(p)
         THEN \E req \in to_satisfy(g, r) : ~ Satisfies(node_pkg, req)
         ELSE TRUE

\* the sub-requirements the transitive step walks (lines 332-335)
sub_requirements_always(g, r, nodeps) ==
    get_requirements(req_name(r), effective(g.nodes[req_name(r)]), r.extras)

sub_requirements(g, r, nodeps) ==
    IF nodeps THEN << >>
    ELSE get_requirements(req_name(r), effective(g.nodes[req_name(r)]), r.extras)

\* the exception is raised after the graph was put back as the top-level
\* call found it
raise_rolled_back(g1, e) ==
    [g |-> pre, exc |-> e, branch |-> "raise", ret |-> FALSE, reqs |-> << >>]

\* an exception leaves add_requirement: the graph stays as it is at the raise
raise_from(g1, e) ==
    [g |-> g1, exc |-> e, branch |-> "raise", ret |-> FALSE, reqs |-> << >>]

\* add_requirement up to its loop of recursive calls (lines 259-335): the
\* graph afterwards, the exception raised ("" when none), the branch
\* taken, the value of `ret` and the sub-requirements still to be added
add_body(g, r, nodeps, parent) ==
    LET name == req_name(r)
        fail(g1, e) == raise_from(g1, e)
        done(g1, b, rt) == [g |-> g1, exc |-> "", branch |-> b, ret |-> rt,
                            reqs |-> sub_requirements(g1, r, nodeps)]
    IN  IF get_available_distributions(name) = << >>
        THEN fail(g, "RequirementNotFound")
        ELSE IF satisfying_packages(g, r) = << >>
        THEN fail(g, "RequirementNotFound")
        ELSE LET p == satisfying_packages(g, r)[1]
             IN  IF has_package(g, name)
                 THEN LET node_pkg == effective(g.nodes[name])
                      IN  IF node_pkg = None
                          THEN fail(g, "AssertionError")
                          ELSE IF node_pkg = sentinal_delete
                          THEN \* sentinal_delete has no version_key
                               fail(g, "AttributeError")
                          ELSE IF change_needed(g, r, node_pkg, p)
                          THEN LET m == mark_for_change(g, name, p, parent, r)
                               IN  IF m.exc # "" THEN fail(m.g, m.exc)
                                   ELSE done(m.g, "change", m.g.nodes[name].pkg1 # None)
                          ELSE done(mark_new_requirement(g, name, parent, r),
                                    "nochange", FALSE)
                 ELSE LET m == mark_for_install(g, name, p, parent, r)
                      IN  IF m.exc # "" THEN fail(m.g, m.exc)
                          ELSE done(m.g, "install", TRUE)

\* a frame of the call stack
Frame(op, r, name, nodeps, parent) ==
    [op |-> op, r |-> r, name |-> name, nodeps |-> nodeps, parent |-> parent,
     pc |-> "body", branch |-> "", ret |-> FALSE, reqs |-> << >>, rdepends |-> {}]

\* the requirements a caller of the resolver passes
Requests ==
    { Req("fabric", "any", 0), Req("pycrypto", "any", 0), Req("paramiko", "any", 0),
      Req("virtualenv", "any", 0), Req("a", "any", 0), Req("unknown", "any", 0),
      Req("pycrypto", "ge", 23), Req("pycrypto", "eq", 21), Req("pycrypto", "lt", 20),
      Req("c", "any", 0), Req("virtualenv", "le", 13) }

Top == stack[Len(stack)]
SetTop(f) == [stack EXCEPT ![Len(stack)] = f]

\* an exception propagates out of every active call
Raise(e) ==
    /\ stack' = << >>
    /\ call' = [call EXCEPT !.status = "raised", !.exc = e]

\* a caller invokes add_requirement(r, nodeps)
AddCall(r, nodeps) ==
    /\ stack = << >>
    /\ calls < MaxCalls
    /\ calls' = calls + 1
    /\ stack' = << Frame("add", r, req_name(r), nodeps, NoParent) >>
    /\ history' = (IF call.op = "none" THEN history ELSE Append(history, call))
    /\ call' = [op |-> "add", r |-> r, name |-> req_name(r), nodeps |-> nodeps,
                status |-> "running", exc |-> "", ret |-> FALSE]
    /\ pre' = G
    /\ plan' = NoPlan
    /\ UNCHANGED << installed, nodes, edges, order_new, order_change, order_remove >>

\* the body of the innermost add_requirement call runs to its loop
AddBody ==
    /\ stack # << >>
    /\ Top.op = "add" /\ Top.pc = "body"
    /\ LET b == add_body(G, Top.r, Top.nodeps, Top.parent)
       IN  /\ SetGraph(b.g)
           /\ IF b.exc # ""
              THEN Raise(b.exc)
              ELSE /\ stack' = SetTop([Top EXCEPT !.pc = "loop", !.branch = b.branch,
                                                  !.ret = b.ret, !.reqs = b.reqs])
                   /\ UNCHANGED call
    /\ UNCHANGED << installed, history, pre, calls, plan >>

\* the loop makes its next recursive call (lines 335-339)
AddRecurse ==
    /\ stack # << >>
    /\ Top.op = "add" /\ Top.pc = "loop" /\ Top.reqs # << >>
    /\ IF Len(stack) >= MaxDepth
       THEN Raise("RecursionError")
       ELSE /\ stack' = Append(SetTop([Top EXCEPT !.reqs = Tail(@)]),
                               Frame("add", Head(Top.reqs), req_name(Head(Top.reqs)),
                                     Top.nodeps, Top.name))
            /\ UNCHANGED call
    /\ UNCHANGED << installed, nodes, edges, order_new, order_change, order_remove,
                    history, pre, calls, plan >>

\* the result of the recursive call is dropped
or_ret_dropped(ret, child) == ret

\* `ret = any([ret, self.add_requirement(...)])` (line 336)
or_ret(ret, child) == ret \/ child

\* the innermost call returns `ret`; its caller ors it into its own
Return ==
    /\ stack # << >>
    /\ Top.pc = "loop" /\ Top.reqs = << >> /\ Top.rdepends = {}
    /\ IF Len(stack) = 1
       THEN /\ stack' = << >>
            /\ call' = [call EXCEPT !.status = "returned", !.ret = Top.ret]
       ELSE /\ stack' = [SubSeq(stack, 1, Len(stack) - 1) EXCEPT
                            ![Len(stack) - 1].ret = or_ret(@, Top.ret)]
            /\ UNCHANGED call
    /\ UNCHANGED << installed, nodes, edges, order_new, order_change, order_remove,
                    history, pre, calls, plan >>

\* -------------------------------------------------------- remove_package
\* a caller invokes remove_package(name, nodeps)
RemoveCall(name, nodeps) ==
    /\ stack = << >>
    /\ calls < MaxCalls
    /\ calls' = calls + 1
    /\ stack' = << Frame("remove", NoReq, name, nodeps, NoParent) >>
    /\ history' = (IF call.op = "none" THEN history ELSE Append(history, call))
    /\ call' = [op |-> "remove", r |-> NoReq, name |-> name, nodeps |-> nodeps,
                status |-> "running", exc |-> "", ret |-> FALSE]
    /\ pre' = G
    /\ plan' = NoPlan
    /\ UNCHANGED << installed, nodes, edges, order_new, order_change, order_remove >>

\* `self.edges[name].keys()`: the dependents recorded for name
rdepends(g, name) == { n2 \in Parents : g.edges[name][n2] # << >> }

\* the innermost remove_package call marks its node (lines 243-245)
RemoveBody ==
    /\ stack # << >>
    /\ Top.op = "remove" /\ Top.pc = "body"
    /\ LET m == mark_for_removal(G, Top.name)
       IN  /\ SetGraph(m.g)
           /\ IF m.exc # ""
              THEN Raise(m.exc)
              ELSE /\ stack' = SetTop([Top EXCEPT !.pc = "loop",
                                   !.branch = IF m.marked THEN "remove" ELSE "nochange",
                                   !.rdepends = IF cascades(m.marked, Top.nodeps)
                                                THEN rdepends(m.g, Top.name) ELSE {}])
                   /\ UNCHANGED call
    /\ UNCHANGED << installed, history, pre, calls, plan >>

\* the loop over the dependents makes its next recursive call (lines 246-247);
\* the keys of a dict come in no order the code controls
RemoveRecurse ==
    /\ stack # << >>
    /\ Top.op = "remove" /\ Top.pc = "loop"
    /\ \E name1 \in Top.rdepends :
          IF Len(stack) >= MaxDepth
          THEN Raise("RecursionError")
          ELSE /\ stack' = Append(SetTop([Top EXCEPT !.rdepends = @ \ {name1}]),
                                  Frame("remove", NoReq, name1, FALSE, NoParent))
               /\ UNCHANGED call
    /\ UNCHANGED << installed, nodes, edges, order_new, order_change, order_remove,
                    history, pre, calls, plan >>

\* ------------------------------------------------------------- get_marks
\* the keys of `nodes` in insertion order: the installed distributions as
\* the loader met them, then the new nodes as _mark_for_install made them
\* (each is pushed on _order_new as it is made)
NodeKeys(g) ==
    [i \in 1..Len(installed) |-> installed[i][1]] \o
    SelectSeq(g.order_new.elements,
              LAMBDA n : n \notin { installed[i][1] : i \in 1..Len(installed) })

\* _Order.rearrange_list, the rank of a key: its index, or the sentinel
rank(order, k) ==
    IF k \in SeqToSet(order.elements)
    THEN (CHOOSE i \in 1..Len(order.elements) :
              order.elements[i] = k /\ \A j \in (i+1)..Len(order.elements) :
                                          order.elements[j] # k) - 1
    ELSE NotPresentRank

\* list.sort(key, reverse): stable; the items left are taken smallest key
\* first (largest first when reversed), ties in their original order
RECURSIVE sort_from(_, _, _, _)
sort_from(lst, left, order, reverse) ==
    IF left = {} THEN << >>
    ELSE LET first == CHOOSE i \in left : \A j \in left \ {i} :
                          LET ri == rank(order, lst[i][1])
                              rj == rank(order, lst[j][1])
                          IN  IF ri = rj THEN i < j
                              ELSE IF reverse THEN ri > rj ELSE ri < rj
         IN  << lst[first] >> \o sort_from(lst, left \ {first}, order, reverse)

rearrange_list(order, lst, reverse) == sort_from(lst, 1..Len(lst), order, reverse)

\* the three buckets of get_marks before sorting; an item starts with the
\* name its sort key reads
marks_install(g) ==
    LET ks == SelectSeq(NodeKeys(g), LAMBDA n : g.nodes[n].pkg1 # None
                            /\ g.nodes[n].pkg1 # sentinal_delete /\ g.nodes[n].pkg = None)
    IN  [i \in 1..Len(ks) |-> << ks[i], g.nodes[ks[i]].pkg1 >>]

\* every installed node with a pending value counts as a change
marks_change_any_pending(g) ==
    LET ks == SelectSeq(NodeKeys(g), LAMBDA n : g.nodes[n].pkg1 # None
                            /\ g.nodes[n].pkg # None)
    IN  [i \in 1..Len(ks) |-> << ks[i], g.nodes[ks[i]].pkg, g.nodes[ks[i]].pkg1 >>]

marks_change(g) ==
    LET ks == SelectSeq(NodeKeys(g), LAMBDA n : g.nodes[n].pkg1 # None
                            /\ g.nodes[n].pkg1 # sentinal_delete /\ g.nodes[n].pkg # None)
    IN  [i \in 1..Len(ks) |-> << ks[i], g.nodes[ks[i]].pkg, g.nodes[ks[i]].pkg1 >>]

marks_remove(g) ==
    LET ks == SelectSeq(NodeKeys(g), LAMBDA n : g.nodes[n].pkg1 = sentinal_delete)
    IN  [i \in 1..Len(ks) |-> << ks[i], g.nodes[ks[i]].pkg >>]

\* MarkMixin.get_marks
get_marks(g) ==
    [install |-> rearrange_list(g.order_new, marks_install(g), TRUE),
     change  |-> rearrange_list(g.order_change, marks_change(g), TRUE),
     remove  |-> rearrange_list(g.order_remove, marks_remove(g), FALSE)]

\* a caller asks for the plan between two calls
GetMarks ==
    /\ stack = << >>
    /\ LET d == get_marks(G)
       IN  plan' = [taken |-> TRUE, install |-> d.install, change |-> d.change,
                    remove |-> d.remove]
    /\ UNCHANGED << installed, nodes, edges, order_new, order_change, order_remove,
                    stack, call, history, pre, calls >>

Next ==
    \/ \E r \in Requests, nodeps \in BOOLEAN : AddCall(r, nodeps)
    \/ AddBody
    \/ AddRecurse
    \/ Return
    \/ \E name \in Names, nodeps \in BOOLEAN : RemoveCall(name, nodeps)
    \/ RemoveBody
    \/ RemoveRecurse
    \/ GetMarks

Spec == Init /\ [][Next]_vars

\* A caller that removes packages, and pins single requirements without
\* their dependencies (which gives graphs with pending marks and top-level
\* edges for the removals to run over).
RemoveNext ==
    \/ \E r \in Requests : AddCall(r, TRUE)
    \/ AddBody
    \/ Return
    \/ \E name \in Names, nodeps \in BOOLEAN : RemoveCall(name, nodeps)
    \/ RemoveBody
    \/ RemoveRecurse

\* The resolver is synchronous: a call that has started runs on until it
\* returns or raises.  Callers need not call again.
FairSpec ==
    /\ Init /\ [][RemoveNext]_vars
    /\ WF_vars(AddBody) /\ WF_vars(Return)
    /\ WF_vars(RemoveBody) /\ WF_vars(RemoveRecurse)

\* ------------------------------------------------- vocabulary of the claims
Steady(node)    == node.pkg # None /\ node.pkg1 = None
ToInstall(node) == node.pkg = None /\ node.pkg1 # None /\ node.pkg1 # sentinal_delete
ToChange(node)  == node.pkg # None /\ node.pkg1 # None /\ node.pkg1 # sentinal_delete
ToRemove(node)  == node.pkg # None /\ node.pkg1 = sentinal_delete

\* position of the item named n in a plan list (0 when absent)
PlanPos(lst, n) ==
    IF \E i \in 1..Len(lst) : lst[i][1] = n
    THEN CHOOSE i \in 1..Len(lst) : lst[i][1] = n
    ELSE 0

\* the names that depend on n, directly or through other names, by the
\* recorded edges (edges[n][d]: d requires n)
RECURSIVE DependentsFrom(_, _, _)
DependentsFrom(g, found, k) ==
    IF k = 0 THEN found
    ELSE DependentsFrom(g, found \cup { d \in Names : \E m \in found : g.edges[m][d] # << >> },
                        k - 1)

Dependents(g, n) ==
    { d \in Names : \E m \in DependentsFrom(g, {n}, Cardinality(Names)) :
                        g.edges[m][d] # << >> }

Idle == stack = << >>

\* the top-level call before the current one
prev == IF history = << >> THEN NoCall ELSE history[Len(history)]

\* every earlier top-level call was an add_requirement that returned normally
OnlyAddsBefore ==
    \A i \in 1..Len(history) : history[i].op = "add" /\ history[i].status = "returned"

\* the innermost call is an add_requirement about to return normally
AddReturning ==
    stack # << >> /\ Top.op = "add" /\ Top.pc = "loop" /\ Top.reqs = << >>

\* every requirement recorded for name, from any dependent
Recorded(g, name) == UNION { SeqToSet(g.edges[name][n2]) : n2 \in Parents }

\* s is a prefix of t
IsPrefix(s, t) == Len(s) <= Len(t) /\ SubSeq(t, 1, Len(s)) = s

\* ---------------------------------------------------------------- claims

\* C1: in every reachable state, the states left behind by a raising call
\* included, every node is in one of the four legal states: steady
\* (installed, none), (none, INSTALL), (installed, CHANGE), (installed, REMOVE).
C1_LegalNodeStates ==
    \A n \in DOMAIN nodes :
        Steady(nodes[n]) \/ ToInstall(nodes[n]) \/ ToChange(nodes[n]) \/ ToRemove(nodes[n])

\* a call raised after it had marked nodes, and the graph holds a new
\* install, a change and a removal side by side
C1_Witness ==
    /\ Idle /\ call.status = "raised" /\ nodes # pre.nodes
    /\ \E n \in DOMAIN nodes : ToInstall(nodes[n])
    /\ \E n \in DOMAIN nodes : ToRemove(nodes[n])

\* every edge of the graph g lies between node keys
EdgesWithin(g) ==
    \A a \in Names, b \in Parents :
        g.edges[a][b] # << >> => a \in DOMAIN g.nodes /\ b \in DOMAIN g.nodes

\* C2: when every edge of the loaded graph has both ends among the node
\* keys, every recorded edge edges[a][b] still has both a and b among the
\* node keys after every add_requirement and remove_package call.
C2_EdgesWithinNodes ==
    EdgesWithin(load_install_db(installed)) => EdgesWithin(G)

C4_InstallOrder ==
    Idle =>
        \A A \in DOMAIN nodes, B \in DOMAIN nodes :
            ( /\ A # B /\ ToInstall(nodes[A]) /\ ToInstall(nodes[B])
              /\ A \in Dependents(G, B) /\ B \notin Dependents(G, A) )
            => PlanPos(get_marks(G).install, B) < PlanPos(get_marks(G).install, A)

\* C5: between calls, in the remove list of get_marks, when A depends on B
\* (edges[B][A] is recorded, and B does not depend on A) and both are marked
\* REMOVE, A comes before B.
C5_RemoveOrder ==
    Idle =>
        \A A \in DOMAIN nodes, B \in DOMAIN nodes :
            ( /\ A # B /\ ToRemove(nodes[A]) /\ ToRemove(nodes[B])
              /\ edges[B][A] # << >> /\ B \notin Dependents(G, A) )
            => PlanPos(get_marks(G).remove, A) < PlanPos(get_marks(G).remove, B)

\* C6: add_requirement terminates on cyclic requirements: a recursive call
\* that comes back to a name already being resolved and finds its version
\* unchanged records the edge and makes no further recursive call, so the
\* call never runs out of stack.
C6_CycleStops ==
    /\ \A i \in 2..(Len(stack) - 1) :
          ( /\ stack[i].op = "add" /\ stack[i].branch = "nochange"
            /\ \E j \in 1..(i - 1) : stack[j].name = stack[i].name ) => FALSE
    /\ call.exc # "RecursionError"

\* C7: after add_requirement("pycrypto>=2.3") marked pycrypto for change to
\* 2.3, add_requirement("fabric") raises RequirementNotFound and leaves
\* pycrypto's mark alone.
C7_EarlierRequirementKept ==
    ( /\ Idle /\ prev.op = "add" /\ prev.r = Req("pycrypto", "ge", 23)
      /\ prev.status = "returned"
      /\ "pycrypto" \in DOMAIN pre.nodes /\ pre.nodes["pycrypto"] = Node(21, 23)
      /\ call.op = "add" /\ call.r = Req("fabric", "any", 0) /\ ~ call.nodeps )
    => /\ call.status = "raised" /\ call.exc = "RequirementNotFound"
       /\ nodes["pycrypto"] = pre.nodes["pycrypto"]

\* the precondition of C8 on the graph g: n is a node, and n and every node
\* that depends on it are steady or already marked REMOVE
C8_Pre(g, n) ==
    /\ n \in DOMAIN g.nodes
    /\ \A d \in ({n} \cup Dependents(g, n)) \cap DOMAIN g.nodes :
          Steady(g.nodes[d]) \/ ToRemove(g.nodes[d])

\* C8: under that precondition, after any sequence of add_requirement calls
\* that returned normally, remove_package(n, nodeps=false) completes without
\* error and leaves n and every dependent marked REMOVE.
C8_RemoveCascades ==
    ( /\ Idle /\ call.op = "remove" /\ ~ call.nodeps
      /\ OnlyAddsBefore
      /\ C8_Pre(pre, call.name) )
    => /\ call.status = "returned"
       /\ \A d \in ({call.name} \cup Dependents(pre, call.name)) \cap DOMAIN nodes :
             ToRemove(nodes[d])

\* the second of two identical add_requirement calls, the first of which
\* returned normally, has ended
C9_Repeated ==
    /\ Idle /\ call.op = "add" /\ call.status # "running"
    /\ prev.op = "add" /\ prev.status = "returned"
    /\ prev.r = call.r /\ prev.nodeps = call.nodeps

C10_ReturnValue ==
    ( Idle /\ call.op = "add" /\ call.status = "returned" )
    => ( call.ret <=> nodes # pre.nodes )

\* the call returned true though its own node was left as it was: the
\* change came from a recursive call
C10_Witness ==
    /\ Idle /\ call.op = "add" /\ call.status = "returned" /\ call.ret
    /\ call.name \in DOMAIN pre.nodes
    /\ nodes[call.name] = pre.nodes[call.name]

\* ------------------------------------------- the selection step, restated
\* the innermost call is an add_requirement about to run its body
AddStarting == stack # << >> /\ Top.op = "add" /\ Top.pc = "body"

\* the requirements a release of r's name has to meet in the graph g: r
\* and, when the node exists, all that is recorded in edges[name][*]
Constraints(g, r) ==
    {r} \cup (IF r.name \in DOMAIN g.nodes THEN Recorded(g, r.name) ELSE {})

\* the positions of the available-release list that qualify
Qualifying(g, r) ==
    { i \in 1..Len(get_available_distributions(r.name)) :
        \A req \in Constraints(g, r) :
            Satisfies(get_available_distributions(r.name)[i], req) }

\* the first qualifying release
FirstQualifying(g, r) ==
    get_available_distributions(r.name)
        [CHOOSE i \in Qualifying(g, r) : \A j \in Qualifying(g, r) : i <= j]

\* the call that is starting finds its node present, at an effective
\* distribution strictly newer than the first qualifying release
C11_Case ==
    /\ AddStarting
    /\ Top.name \in DOMAIN nodes
    /\ Qualifying(G, Top.r) # {}
    /\ effective(nodes[Top.name]) \notin {None, sentinal_delete}
    /\ version_key(effective(nodes[Top.name])) > version_key(FirstQualifying(G, Top.r))

\* C11: in that case, when the effective version satisfies every
\* requirement of to_satisfy the nodes are left as they are and only the
\* edge is recorded; when it fails one, the node goes to the first
\* qualifying release p (its installed distribution kept, p the effective
\* one afterwards).
C11_Downgrade ==
    [][ C11_Case =>
          IF \A req \in Constraints(G, Top.r) :
                 Satisfies(effective(nodes[Top.name]), req)
          THEN /\ nodes' = nodes
               /\ edges' = [edges EXCEPT ![Top.name][Top.parent] = Append(@, Top.r)]
          ELSE /\ nodes'[Top.name].pkg = nodes[Top.name].pkg
               /\ effective(nodes'[Top.name]) = FirstQualifying(G, Top.r) ]_vars

\* the step that runs the body ends the call in RequirementNotFound
RaisesNotFound == call'.status = "raised" /\ call'.exc = "RequirementNotFound"

\* C12: the selection step raises RequirementNotFound exactly when no
\* available release of the name satisfies r and everything recorded in
\* edges[name][*] (an empty release list included); otherwise it selects the
\* first release in list order that does: a new node is made pending
\* INSTALL of it, and an existing node, if it changes, has it as its
\* effective distribution.
C12_Selection ==
    [][ AddStarting =>
          /\ RaisesNotFound <=> Qualifying(G, Top.r) = {}
          /\ ( Qualifying(G, Top.r) # {} /\ Top.name \notin DOMAIN nodes )
             => nodes'[Top.name] = Node(None, FirstQualifying(G, Top.r))
          /\ ( /\ Qualifying(G, Top.r) # {} /\ Top.name \in DOMAIN nodes
               /\ nodes'[Top.name] # nodes[Top.name] )
             => effective(nodes'[Top.name]) = FirstQualifying(G, Top.r) ]_vars

\* a recursive call raised RequirementNotFound for pycrypto, whose releases
\* each satisfy the requirement at hand but not the one recorded for c
C12_Witness ==
    /\ Idle /\ call.status = "raised" /\ call.exc = "RequirementNotFound"
    /\ call.name = "c" /\ "pycrypto" \in DOMAIN nodes
    /\ edges["pycrypto"]["c"] # << >>

PlanItems(lst) == { lst[i] : i \in 1..Len(lst) }
PlanNames(lst) == { lst[i][1] : i \in 1..Len(lst) }
NoRepeat(lst)  == \A i, j \in 1..Len(lst) : lst[i] = lst[j] => i = j

Classified ==
    /\ PlanItems(plan.install) =
           { << n, nodes[n].pkg1 >> : n \in { m \in DOMAIN nodes : ToInstall(nodes[m]) } }
    /\ PlanItems(plan.change) =
           { << n, nodes[n].pkg, nodes[n].pkg1 >> :
                 n \in { m \in DOMAIN nodes : ToChange(nodes[m]) } }
    /\ PlanItems(plan.remove) =
           { << n, nodes[n].pkg >> : n \in { m \in DOMAIN nodes : ToRemove(nodes[m]) } }
    /\ NoRepeat(plan.install) /\ NoRepeat(plan.change) /\ NoRepeat(plan.remove)
    /\ PlanNames(plan.install) \cap PlanNames(plan.change) = {}
    /\ PlanNames(plan.install) \cap PlanNames(plan.remove) = {}
    /\ PlanNames(plan.change) \cap PlanNames(plan.remove) = {}
    /\ \A n \in DOMAIN nodes : Steady(nodes[n]) =>
           n \notin PlanNames(plan.install) \cup PlanNames(plan.change)
                        \cup PlanNames(plan.remove)

\* C14: the plan get_marks returns has in install the pending distribution
\* of exactly the nodes to install, in change the (installed, pending) pair
\* of exactly the nodes to change, in remove the installed distribution of
\* exactly the nodes to remove; a steady node is in no list, no node is in
\* two lists, and taking the plan leaves nodes, edges and orders unchanged.
C14_MarksClassify ==
    [][ plan'.taken => ( Classified' /\ G' = G ) ]_vars

\* a plan was taken that has something in each of its three lists
C14_Witness ==
    plan.taken /\ plan.install # << >> /\ plan.change # << >> /\ plan.remove # << >>

\* C15: a call made with nodeps makes no recursive call and changes no
\* node, and no edge list, other than those of the name it was given; on
\* the example installation add_requirement("fabric", nodeps) marks fabric
\* for the change 0.9.1 -> 0.9.2 and adds no paramiko node.
C15_NodepsTouchesOnlyName ==
    ( call.op \in {"add", "remove"} /\ call.nodeps ) =>
        /\ Len(stack) <= 1
        /\ \A n \in DOMAIN nodes \ {call.name} :
               n \in DOMAIN pre.nodes /\ nodes[n] = pre.nodes[n]
        /\ \A n \in Names \ {call.name} : edges[n] = pre.edges[n]
        /\ ( installed = ExampleInstalled /\ calls = 1 /\ call.op = "add"
             /\ call.r = Req("fabric", "any", None) /\ call.status = "returned" ) =>
               nodes["fabric"] = Node(91, 92) /\ "paramiko" \notin DOMAIN nodes

\* on the example installation a nodeps removal of a package others
\* depend on returned, then a nodeps add of fabric returned
C15_Witness ==
    /\ Idle /\ installed = ExampleInstalled
    /\ prev.op = "remove" /\ prev.nodeps /\ prev.status = "returned"
    /\ ToRemove(nodes[prev.name]) /\ rdepends(G, prev.name) # {}
    /\ call.op = "add" /\ call.nodeps /\ call.status = "returned"
    /\ call.r = Req("fabric", "any", None) /\ ToChange(nodes["fabric"])

\* the current call is remove_package of the name whose removal the call
\* before it made and returned from
SecondRemoval ==
    /\ call.op = "remove" /\ prev.op = "remove"
    /\ prev.status = "returned" /\ prev.name = call.name

\* C16: a second remove_package(n), after a first that returned, raises
\* nothing, makes no recursive call, and leaves nodes, edges, the three
\* orders and the plan get_marks gives as the first call left them.
C16_RemoveTwice ==
    SecondRemoval =>
        /\ call.status # "raised"
        /\ Len(stack) <= 1
        /\ G = pre
        /\ get_marks(G) = get_marks(pre)

\* the second removal of a package that has dependents has returned
C16_Witness ==
    /\ Idle /\ SecondRemoval /\ call.status = "returned"
    /\ ~ call.nodeps /\ ~ prev.nodeps
    /\ Cardinality({ n \in DOMAIN nodes : ToRemove(nodes[n]) }) >= 2

\* the frames of the running removal that placed a new mark
MarkingFrames == { i \in 1..Len(stack) : stack[i].op = "remove" /\ stack[i].branch = "remove" }

RemoveBounded ==
    call.op = "remove" =>
        /\ call.exc # "RecursionError"
        /\ Len(stack) <= Cardinality(DOMAIN nodes) + 1
        /\ \A i, j \in MarkingFrames : stack[i].name = stack[j].name => i = j
        /\ \A i \in 1..Len(stack) :
               ( stack[i].pc = "loop" /\ stack[i].branch = "nochange" ) =>
                   stack[i].rdepends = {}
        /\ NoRepeat(order_remove.elements)

\* C17: every remove_package call ends, also when the edges form a cycle:
\* it never runs out of stack, a node is marked by at most one frame, a
\* frame that finds its node already marked for removal cascades no
\* further, and a running removal always comes to its end.
C17_RemoveTerminates ==
    /\ []RemoveBounded
    /\ ( call.op = "remove" /\ call.status = "running" ) ~> ( call.status # "running" )

\* on the installation where a and b require each other, a removal that
\* cascaded round the cycle has returned
C17_Witness ==
    /\ Idle /\ installed = CycleInstalled
    /\ call.op = "remove" /\ ~ call.nodeps /\ call.status = "returned"
    /\ ToRemove(nodes["a"]) /\ ToRemove(nodes["b"])
    /\ edges["a"]["b"] # << >> /\ edges["b"]["a"] # << >>

\* order o became o2 in a step that stamped e, which o already held: the
\* earlier occurrence is gone, e is last, the rest keep their order
MovedToEnd(o, o2, e) ==
    ( e \in o.elements_set /\ o2 # o ) =>
        /\ o2.elements = Append(ListRemove(o.elements, e), e)
        /\ o2.elements_set = o.elements_set
        /\ call'.status # "raised"

\* C18: a step that stamps a name an order sequence already holds moves
\* the name to the last position, once, keeps the order of the others, and
\* raises nothing.
C18_PushMovesToEnd ==
    [][ ( stack # << >> /\ Top.pc = "body" ) =>
          /\ MovedToEnd(order_new, order_new', Top.name)
          /\ MovedToEnd(order_change, order_change', Top.name)
          /\ MovedToEnd(order_remove, order_remove', Top.name) ]_vars

\* the names of the installed distributions
InstalledNames == { installed[i][1] : i \in 1..Len(installed) }

\* C19: in the graph the loader leaves (before any call), every recorded
\* edge edges[a][b] has both a and b among the installed names.
C19_LoadedEdgesInstalled ==
    calls = 0 =>
        \A a \in Names, b \in Parents :
            edges[a][b] # << >> => a \in InstalledNames /\ b \in InstalledNames

\* the step runs the body of add_requirement for n and selects the release
\* whose version is the installed one: the same-version collapse
Collapses(n) ==
    /\ AddStarting /\ Top.name = n
    /\ Qualifying(G, Top.r) # {}
    /\ version_key(FirstQualifying(G, Top.r)) = version_key(nodes[n].pkg)

\* C20: in every step every node stays a node and keeps its installed
\* field, a node pending REMOVE stays as it is, and a pending field that is
\* not none becomes none only in the same-version collapse of a change.
C20_MarksKept ==
    [][ \A n \in DOMAIN nodes :
          /\ n \in DOMAIN nodes'
          /\ nodes'[n].pkg = nodes[n].pkg
          /\ nodes[n].pkg1 = sentinal_delete => nodes'[n] = nodes[n]
          /\ ( nodes[n].pkg1 # None /\ nodes'[n].pkg1 = None ) => Collapses(n) ]_vars

\* add_requirement was called for a package an earlier call marked for
\* removal, with a requirement its installed version does not meet; the
\* call is over and the node is still pending REMOVE
C20_Witness ==
    /\ Idle /\ call.op = "add" /\ call.status = "raised"
    /\ prev.op = "remove" /\ prev.status = "returned"
    /\ call.name \in DOMAIN nodes /\ ToRemove(nodes[call.name])
    /\ ~ Satisfies(nodes[call.name].pkg, call.r)

\* every marked node has its name in the order sequence of its mark
MarksStamped ==
    \A n \in DOMAIN nodes :
        /\ ToInstall(nodes[n]) => n \in SeqToSet(order_new.elements)
        /\ ToChange(nodes[n])  => n \in SeqToSet(order_change.elements)
        /\ ToRemove(nodes[n])  => n \in SeqToSet(order_remove.elements)

\* an order's list and membership set hold the same names, the list once
\* each, and all of them are node keys
OrderSound(order) ==
    /\ SeqToSet(order.elements) = order.elements_set
    /\ NoRepeat(order.elements)
    /\ order.elements_set \subseteq DOMAIN nodes

\* no item of the plan get_marks would give is ranked as not present
PlanRanked ==
    LET g == G
    IN  /\ \A i \in 1..Len(marks_install(g)) :
               rank(g.order_new, marks_install(g)[i][1]) # NotPresentRank
        /\ \A i \in 1..Len(marks_change(g)) :
               rank(g.order_change, marks_change(g)[i][1]) # NotPresentRank
        /\ \A i \in 1..Len(marks_remove(g)) :
               rank(g.order_remove, marks_remove(g)[i][1]) # NotPresentRank

\* C21: in every reachable state, also one a raising call left behind,
\* every marked node is stamped in the order sequence of its mark, each
\* sequence's list and membership set hold the same names without
\* duplicates, every stamped name is a node key, and so no plan item is
\* ranked with the not-present rank.
C21_OrdersAgreeWithMarks ==
    /\ MarksStamped
    /\ OrderSound(order_new) /\ OrderSound(order_change) /\ OrderSound(order_remove)
    /\ PlanRanked
====
